---------------------------- MODULE Spec2Model ----------------------------
(***************************************************************************)
(* Output-stream sinks of circus: the rotating FileStream plugin           *)
(* (circus/plugins/loggers.py), the queue-backed QueueStream               *)
(* (circus/stream/__init__.py) and the router that fans events out to the  *)
(* registered sinks.                                                       *)
(*                                                                         *)
(* A file system is a function from the numeric suffix of a path to the    *)
(* content of that file: 0 is the base file, i is "<base>.i"; a path that  *)
(* is not in the domain does not exist.  Contents, topics and records are  *)
(* sequences of one-character strings.                                     *)
(***************************************************************************)
EXTENDS Integers, Sequences, FiniteSets, TLC

(* ---------------------------- bounds ---------------------------------- *)
MaxRecv == 4
MaxBackupCount == 2
MaxDispatch == 2
MaxPush == 4
MaxCalls == 2

(* ---------------------------- inputs ---------------------------------- *)
Rep(c, n) == [i \in 1..n |-> c]

TopicT == <<"t">>
TopicU == <<"u">>
NoTopic == <<>>

Payloads == {Rep("a", 15), Rep("b", 15), Rep("c", 15), Rep("d", 1)}

\* the transport delivers the payload JSON-encoded: a quoted string
json_dumps(p) == <<"\"">> \o p \o <<"\"">>

Events == {<<TopicT, json_dumps(p)>> : p \in Payloads}
            \cup {<<TopicU, json_dumps(Rep("a", 15))>>}

MaxBytesValues == {-1, 0, 10, 20, 36}

OldContent == Rep("o", 5)

Sinks == {1, 2, 3}

RouterTopics == {"stdout", "stderr"}

Filters == {[kind |-> "all", topic |-> "", topics |-> {}],
            [kind |-> "single", topic |-> "stdout", topics |-> {}],
            [kind |-> "set", topic |-> "", topics |-> {"stderr"}]}

Producers == {"p1", "p2"}

QueueData == {"x", "y"}

FooBarBaz == <<"f", "o", "o", "\n", "b", "a", "r", "\n", "b", "a", "z">>

\* every payload of up to three characters, and the three-line example with
\* and without a trailing line break
FancyPayloads == UNION {[1..n -> {"x", "\n"}] : n \in 0..3}
                   \cup {FooBarBaz, FooBarBaz \o <<"\n">>}

\* the record given to the stream, with or without a pid
FancyData == {[data |-> p, haspid |-> h, pid |-> 333] :
                  p \in FancyPayloads, h \in BOOLEAN}

ColorArgs == {"red", "green", "yellow", "blue", "magenta", "cyan", "white",
              "None", "purple"}

TimeFormatArgs == {"None", "%H.%M.%S"}

\* by how much the clock has advanced at each of the n calls of now() within
\* one event
Ticks(n) == [1..n -> {0, 1}]

\* the topics option of OutputStream: absent, one topic, two topics
TopicsArgs == {<<>>, <<TopicT>>, <<TopicT, TopicU>>}

VARIABLES
    max_bytes,      \* self._max_bytes
    backup_count,   \* self._backup_count
    topic,          \* self.topic
    file,           \* self._file: "None", "open" or "closed"
    fs,             \* the files of the base path
    raised,         \* the exception the last call ended with, or "none"
    preexisting,    \* history: content of the base path at construction
    written,        \* history: every byte the sink has written
    rollovers,      \* history: base content at each _do_rollover
    nrecv,          \* number of handle_recv calls so far
    inited,         \* handle_init has been called
    stopped,        \* handle_stop has been called
    last,           \* history: the last call, its pre-state and its trace
    failing,        \* router: the sinks constructed to fail on handle
    rphase,         \* router: "setup", "running" or "shutdown"
    regs,           \* router: registrations, in registration order
    delivered,      \* router: per sink, the events its handle was given
    failures,       \* router: the failures recorded
    lastDispatch,   \* router history: the last dispatch and its pre-state
    ndispatch,      \* router: number of dispatches so far
    queue,          \* QueueStream: the items held
    maxsize,        \* QueueStream: Queue.maxsize
    pushed,         \* history: items in the order they were put
    got,            \* history: items in the order the consumer got them
    blocked,        \* producers waiting in put for room
    qclosed,        \* close() has been called
    color,          \* FancyStdoutStream: the color argument
    picked,         \* history: the color the constructor settled on
    time_format,    \* self.time_format
    color_code,     \* self.color_code
    clock,          \* the time now() last returned
    ncalls,         \* number of __call__ so far
    flast,          \* history: the last __call__, what it wrote to self.out
    topics,         \* OutputStream: self.topics
    olast           \* history: the last OutputStream.handle_recv, what it
                    \* wrote to sys.stdout

filevars == <<max_bytes, backup_count, topic, file, fs, raised, preexisting,
              written, rollovers, nrecv, inited, stopped, last>>
routervars == <<failing, rphase, regs, delivered, failures, lastDispatch, ndispatch>>
queuevars == <<queue, maxsize, pushed, got, blocked, qclosed>>
fancyvars == <<color, picked, time_format, color_code, clock, ncalls, flast>>
outputvars == <<topics, olast>>
vars == <<filevars, routervars, queuevars, fancyvars, outputvars>>

(* ------------------------- the file system ---------------------------- *)
exists(f, i) == i \in DOMAIN f

remove(f, i) == [j \in DOMAIN f \ {i} |-> f[j]]

rename(f, s, d) ==
    [j \in (DOMAIN f \ {s}) \cup {d} |-> IF j = d THEN f[s] ELSE f[j]]

\* open(name, 'a+'): creates the file when absent, keeps its content
a_plus(f) ==
    IF exists(f, 0) THEN f
    ELSE [j \in DOMAIN f \cup {0} |-> IF j = 0 THEN <<>> ELSE f[j]]

getsize(f) == IF exists(f, 0) THEN Len(f[0]) ELSE 0

(* --------------------- the run of one handler ------------------------- *)
(* st is the state a handler runs on: the files, self._file, the pending   *)
(* exception, the trace of file operations (each with the state of         *)
(* self._file and the files that existed when it ran), the contents        *)
(* rotated out, the bytes written and the value returned by the last call. *)
Begin == [fs |-> fs, file |-> file, exc |-> "none", ops |-> <<>>,
          rolled |-> <<>>, out |-> <<>>, ret |-> FALSE]

Do(st, name, src, dst, newfs, newfile) ==
    [st EXCEPT !.fs = newfs, !.file = newfile,
               !.ops = Append(@, [op |-> name, src |-> src, dst |-> dst,
                                  handle |-> st.file,
                                  present |-> DOMAIN st.fs])]

Raise(st, e) == [st EXCEPT !.exc = e]

os_remove(st, i) ==
    IF st.exc # "none" THEN st
    ELSE IF ~exists(st.fs, i) THEN Raise(st, "OSError")
    ELSE Do(st, "remove", i, i, remove(st.fs, i), st.file)

os_rename(st, s, d) ==
    IF st.exc # "none" THEN st
    ELSE IF ~exists(st.fs, s) THEN Raise(st, "OSError")
    ELSE Do(st, "rename", s, d, rename(st.fs, s, d), st.file)

file_close(st) ==
    IF st.exc # "none" THEN st
    ELSE IF st.file = "None" THEN Raise(st, "AttributeError")
    ELSE Do(st, "close", 0, 0, st.fs, "closed")

file_write(st, data) ==
    IF st.exc # "none" THEN st
    ELSE IF st.file = "None" THEN Raise(st, "AttributeError")
    ELSE IF st.file = "closed" THEN Raise(st, "ValueError")
    ELSE [Do(st, "write", 0, 0, [st.fs EXCEPT ![0] = @ \o data], st.file)
            EXCEPT !.out = @ \o data]

\* self._file.seek(0, 2); self._file.tell()
file_tell(st) ==
    IF st.exc # "none" THEN st
    ELSE IF st.file = "None" THEN Raise(st, "AttributeError")
    ELSE IF st.file = "closed" THEN Raise(st, "ValueError")
    ELSE [st EXCEPT !.ret = Len(st.fs[0])]

(* ---------------------------- FileStream ------------------------------ *)
\* a rollover-style open that truncates (mode 'w+')
open_truncating(st) ==
    IF st.exc # "none" THEN st
    ELSE Do(st, "open", 0, 0,
            [j \in DOMAIN st.fs \cup {0} |-> IF j = 0 THEN <<>> ELSE st.fs[j]],
            "open")

\* self._file = self._open()
open(st) ==
    IF st.exc # "none" THEN st
    ELSE Do(st, "open", 0, 0, a_plus(st.fs), "open")

json_loads(message) == SubSeq(message, 2, Len(message) - 1)

\* '%s: %s' % (topic, json.loads(message))
format(t, message) == t \o <<":", " ">> \o json_loads(message)

\* the loop started one index too high
range_start_off_by_one == backup_count

\* first index of range(self._backup_count - 1, 0, -1)
range_start == backup_count - 1

\* one turn of the loop of _do_rollover
rollover_turn(st, i) ==
    IF st.exc # "none" \/ ~exists(st.fs, i) THEN st
    ELSE os_rename(IF exists(st.fs, i + 1) THEN os_remove(st, i + 1) ELSE st,
                   i, i + 1)

\* the backups are not shifted before the base file is renamed
rollover_loop_skipped(st, i) == st

RECURSIVE rollover_loop(_, _)
rollover_loop(st, i) ==
    IF i < 1 THEN st ELSE rollover_loop(rollover_turn(st, i), i - 1)

\* the renaming of the base file to "<base>.1"
rollover_base(st) ==
    IF st.exc # "none" THEN st
    ELSE os_rename(IF exists(st.fs, 1) THEN os_remove(st, 1) ELSE st, 0, 1)

\* the files are renamed under the open handle, which is closed afterwards
do_rollover_close_last(st) ==
    LET s0 == [st EXCEPT !.rolled = Append(@, IF exists(st.fs, 0)
                                              THEN st.fs[0] ELSE <<>>)]
        s1 == IF backup_count > 0
              THEN rollover_base(rollover_loop(s0, range_start))
              ELSE s0
        s2 == IF s1.file # "None"
              THEN [file_close(s1) EXCEPT !.file = "None"]
              ELSE s1
    IN  open(s2)

do_rollover(st) ==
    LET s0 == [st EXCEPT !.rolled = Append(@, IF exists(st.fs, 0)
                                              THEN st.fs[0] ELSE <<>>)]
        s1 == IF s0.file # "None"
              THEN [file_close(s0) EXCEPT !.file = "None"]
              ELSE s0
        s2 == IF backup_count > 0
              THEN rollover_base(rollover_loop(s1, range_start))
              ELSE s1
    IN  open(s2)

\* the size test without the max_bytes > 0 guard
should_rollover_unguarded(st, raw_data) ==
    LET s1 == IF st.file = "None" THEN open(st) ELSE st
        s2 == file_tell(s1)
    IN  IF s2.exc # "none" THEN s2
        ELSE [s2 EXCEPT !.ret = (s2.ret + Len(raw_data) >= max_bytes)]

\* a handle that is closed is opened again, like one that is None
should_rollover_reopening(st, raw_data) ==
    LET s1 == IF st.file # "open" THEN open(st) ELSE st
        s2 == file_tell(s1)
    IN  IF max_bytes > 0
        THEN IF s2.exc # "none" THEN s2
             ELSE [s2 EXCEPT !.ret = (s2.ret + Len(raw_data) >= max_bytes)]
        ELSE [s1 EXCEPT !.ret = FALSE]

should_rollover(st, raw_data) ==
    LET s1 == IF st.file = "None" THEN open(st) ELSE st
        s2 == file_tell(s1)
    IN  IF max_bytes > 0
        THEN IF s2.exc # "none" THEN s2
             ELSE [s2 EXCEPT !.ret = (s2.ret + Len(raw_data) >= max_bytes)]
        ELSE [s1 EXCEPT !.ret = FALSE]

\* the missing topic option taken as a filter that matches every topic
handle_recv_match_all(st, data) ==
    IF data[1] = topic \/ topic = NoTopic
    THEN LET message == format(data[1], data[2])
             s1 == should_rollover(st, message)
             s2 == IF s1.exc = "none" /\ s1.ret THEN do_rollover(s1) ELSE s1
         IN  file_write(s2, message)
    ELSE st

\* the record is written whatever the topic
handle_recv_unfiltered(st, data) ==
    LET message == format(data[1], data[2])
        s1 == should_rollover(st, message)
        s2 == IF s1.exc = "none" /\ s1.ret THEN do_rollover(s1) ELSE s1
    IN  file_write(s2, message)

handle_recv(st, data) ==
    IF data[1] = topic
    THEN LET message == format(data[1], data[2])
             s1 == should_rollover(st, message)
             s2 == IF s1.exc = "none" /\ s1.ret THEN do_rollover(s1) ELSE s1
         IN  file_write(s2, message)
    ELSE st

handle_init(st) == open(st)

handle_stop(st) == file_close(st)

(* ------------------------ FileStream actions -------------------------- *)
Finish(name, data, st) ==
    /\ fs' = st.fs
    /\ file' = st.file
    /\ raised' = st.exc
    /\ written' = written \o st.out
    /\ rollovers' = rollovers \o st.rolled
    /\ last' = [op |-> name, data |-> data, fsBefore |-> fs,
                fileBefore |-> file, ops |-> st.ops,
                rolled |-> Len(st.rolled), out |-> st.out]
    /\ UNCHANGED <<max_bytes, backup_count, topic, preexisting>>
    /\ UNCHANGED <<routervars, queuevars, fancyvars, outputvars>>

HandleInit ==
    /\ ~inited /\ ~stopped
    /\ Finish("handle_init", <<>>, handle_init(Begin))
    /\ inited' = TRUE
    /\ UNCHANGED <<stopped, nrecv>>

HandleRecv ==
    /\ nrecv < MaxRecv
    /\ \E data \in Events : Finish("handle_recv", data, handle_recv(Begin, data))
    /\ nrecv' = nrecv + 1
    /\ UNCHANGED <<inited, stopped>>

HandleStop ==
    /\ ~stopped
    /\ Finish("handle_stop", <<>>, handle_stop(Begin))
    /\ stopped' = TRUE
    /\ UNCHANGED <<inited, nrecv>>

\* FileStream.__init__, on a base path that is absent or left by an earlier run
FileInit ==
    /\ max_bytes \in MaxBytesValues
    /\ backup_count \in 0..MaxBackupCount
    /\ topic \in {TopicT, NoTopic}
    /\ preexisting \in {<<>>, OldContent}
    /\ fs = IF preexisting = <<>> THEN <<>> ELSE (0 :> preexisting)
    /\ file = "None"
    /\ raised = "none"
    /\ written = <<>>
    /\ rollovers = <<>>
    /\ nrecv = 0
    /\ inited = FALSE
    /\ stopped = FALSE
    /\ last = [op |-> "init", data |-> <<>>, fsBefore |-> fs,
               fileBefore |-> "None", ops |-> <<>>, rolled |-> 0, out |-> <<>>]

(* ------------------------------ router -------------------------------- *)
\* "match-all" always matches; a single string matches iff it equals the
\* topic; a set matches iff the topic is a member
matches(filter, t) ==
    CASE filter.kind = "all" -> TRUE
      [] filter.kind = "single" -> filter.topic = t
      [] filter.kind = "set" -> t \in filter.topics

\* the failure of a sink ends the dispatch
after_failure_abort(i) == Len(regs) + 1

\* the registration the router turns to after the sink at i has failed
after_failure(i) == i + 1

\* sink.handle(event): the sink is given the event, and fails if so constructed
sink_handle(r, sink, event) ==
    [r EXCEPT !.delivered[sink] = Append(@, event),
              !.raised = sink \in failing]

RECURSIVE dispatch_loop(_, _, _)
dispatch_loop(r, i, event) ==
    IF i > Len(regs) THEN r
    ELSE IF ~matches(regs[i].filter, event.topic)
    THEN dispatch_loop(r, i + 1, event)
    ELSE LET r1 == sink_handle(r, regs[i].sink, event)
         IN  IF r1.raised
             THEN dispatch_loop(
                      [r1 EXCEPT !.raised = FALSE,
                                 !.failures = Append(@, [sink |-> regs[i].sink,
                                                          event |-> event])],
                      after_failure(i), event)
             ELSE dispatch_loop(r1, i + 1, event)

dispatch(event) ==
    dispatch_loop([delivered |-> delivered, failures |-> failures,
                   raised |-> FALSE], 1, event)

NoDispatch == [event |-> [topic |-> "", id |-> 0], regs |-> <<>>,
               before |-> [s \in Sinks |-> <<>>]]

Registered == {regs[i].sink : i \in 1..Len(regs)}

\* registrations are made at setup time and removed at shutdown
Register ==
    /\ rphase = "setup"
    /\ \E sink \in Sinks \ Registered, filter \in Filters :
           regs' = Append(regs, [sink |-> sink, filter |-> filter])
    /\ UNCHANGED <<failing, rphase, delivered, failures, lastDispatch,
                   ndispatch>>
    /\ UNCHANGED <<filevars, queuevars, fancyvars, outputvars>>

Unregister ==
    /\ rphase' = "shutdown"
    /\ \E i \in 1..Len(regs) :
           regs' = SubSeq(regs, 1, i - 1) \o SubSeq(regs, i + 1, Len(regs))
    /\ UNCHANGED <<failing, delivered, failures, lastDispatch, ndispatch>>
    /\ UNCHANGED <<filevars, queuevars, fancyvars, outputvars>>

Dispatch ==
    /\ rphase # "shutdown"
    /\ rphase' = "running"
    /\ ndispatch < MaxDispatch
    /\ \E t \in RouterTopics :
           LET event == [topic |-> t, id |-> ndispatch + 1]
               r == dispatch(event)
           IN  /\ delivered' = r.delivered
               /\ failures' = r.failures
               /\ lastDispatch' = [event |-> event, regs |-> regs,
                                   before |-> delivered]
    /\ ndispatch' = ndispatch + 1
    /\ UNCHANGED <<failing, regs>>
    /\ UNCHANGED <<filevars, queuevars, fancyvars, outputvars>>

(* ---------------------------- QueueStream ----------------------------- *)
\* Queue.__init__(self): no maxsize, an empty queue
QueueStream_init == [maxsize |-> 0, queue |-> <<>>]

\* the consumer is handed the newest item
get_newest(q) == [item |-> q[Len(q)], rest |-> SubSeq(q, 1, Len(q) - 1)]

\* Queue.get(): the item at the head
get(q) == [item |-> Head(q), rest |-> Tail(q)]

\* Queue.put(item): waits while a bounded queue is full, else appends
put(q, item) ==
    IF maxsize > 0 /\ Len(q) >= maxsize
    THEN [queue |-> q, done |-> FALSE]
    ELSE [queue |-> Append(q, item), done |-> TRUE]

\* QueueStream.__call__(data)
QueueCall ==
    /\ Len(pushed) + Cardinality(blocked) < MaxPush
    /\ \E p \in Producers \ blocked, d \in QueueData :
           LET item == <<p, d, Len(pushed) + 1>>
               r == put(queue, item)
           IN  /\ queue' = r.queue
               /\ pushed' = IF r.done THEN Append(pushed, item) ELSE pushed
               /\ blocked' = IF r.done THEN blocked ELSE blocked \cup {p}
    /\ UNCHANGED <<maxsize, got, qclosed>>
    /\ UNCHANGED <<filevars, routervars, fancyvars, outputvars>>

QueueGet ==
    /\ Len(queue) > 0
    /\ LET r == get(queue)
       IN  /\ queue' = r.rest
           /\ got' = Append(got, r.item)
    /\ UNCHANGED <<maxsize, pushed, blocked, qclosed>>
    /\ UNCHANGED <<filevars, routervars, fancyvars, outputvars>>

\* QueueStream.close(): pass
QueueClose ==
    /\ ~qclosed
    /\ qclosed' = TRUE
    /\ UNCHANGED <<queue, maxsize, pushed, got, blocked>>
    /\ UNCHANGED <<filevars, routervars, fancyvars, outputvars>>

(* ------------------------- FancyStdoutStream -------------------------- *)
colors == <<"red", "green", "yellow", "blue", "magenta", "cyan", "white">>

\* self.colors.index(color), counted from 0
colors_index(c) == (CHOOSE i \in 1..Len(colors) : colors[i] = c) - 1

\* the index taken as the code
color_code_unshifted(c) == colors_index(c)

\* self.colors.index(color) + 1
color_code_of(c) == colors_index(c) + 1

\* time_format or '%Y-%M-%d %H:%M:%S'
time_format_of(arg) == IF arg = "None" THEN "%Y-%M-%d %H:%M:%S" ELSE arg

\* datetime.strftime: the time in the given format
strftime(t, fmt) == <<fmt, ToString(t)>>

RECURSIVE split(_)
\* str.split('\n')
split(str) ==
    IF \A i \in 1..Len(str) : str[i] # "\n" THEN <<str>>
    ELSE LET i == CHOOSE j \in 1..Len(str) :
                      str[j] = "\n" /\ \A k \in 1..(j - 1) : str[k] # "\n"
         IN  <<SubSeq(str, 1, i - 1)>> \o split(SubSeq(str, i + 1, Len(str)))

\* the run of one __call__: what was written to self.out, the lines it is
\* made of, the clock, the number of now() calls and the pending exception
FancyBegin == [out |-> <<>>, lines |-> <<>>, clock |-> clock, k |-> 0,
               exc |-> "none"]

\* self.now(): the clock may have advanced since it was last read (ticks
\* lists the advances seen by the successive reads)
now(r, ticks) ==
    [r EXCEPT !.clock = @ + (IF r.k + 1 \in DOMAIN ticks
                             THEN ticks[r.k + 1] ELSE 0),
              !.k = @ + 1]

\* FancyStdoutStream.prefix(pid), on the state now() leaves
prefix(r, pid) ==
    <<"ESC[0;3", ToString(color_code), ";40m">>
        \o strftime(r.clock, time_format) \o <<" [", ToString(pid), "] | ">>

\* every segment is written, the empty ones too
write_line_unfiltered(r, data, line, ticks) ==
    IF r.exc # "none" THEN r
    ELSE IF ~data.haspid THEN [r EXCEPT !.exc = "KeyError"]
    ELSE LET r1 == now(r, ticks)
         IN  [r1 EXCEPT !.out = @ \o prefix(r1, data.pid) \o line
                                  \o <<"ESC[0m", "\n">>,
                        !.lines = Append(@, [time |-> r1.clock,
                                             pid |-> data.pid,
                                             code |-> color_code,
                                             text |-> line])]

\* the body of the loop of __call__
write_line(r, data, line, ticks) ==
    IF r.exc # "none" \/ line = <<>> THEN r
    ELSE IF ~data.haspid THEN [r EXCEPT !.exc = "KeyError"]
    ELSE LET r1 == now(r, ticks)
         IN  [r1 EXCEPT !.out = @ \o prefix(r1, data.pid) \o line
                                  \o <<"ESC[0m", "\n">>,
                        !.lines = Append(@, [time |-> r1.clock,
                                             pid |-> data.pid,
                                             code |-> color_code,
                                             text |-> line])]

RECURSIVE write_lines(_, _, _, _, _)
write_lines(r, data, segs, i, ticks) ==
    IF i > Len(segs) THEN r
    ELSE write_lines(write_line(r, data, segs[i], ticks), data, segs, i + 1,
                     ticks)

\* FancyStdoutStream.__call__(data)
fancy_call(r, data, ticks) == write_lines(r, data, split(data.data), 1, ticks)

NoCall == [called |-> FALSE, data |-> [data |-> <<>>, haspid |-> TRUE,
                                       pid |-> 333],
           out |-> <<>>, lines |-> <<>>, exc |-> "none"]

\* FancyStdoutStream.__init__(color, time_format)
FancyInit ==
    /\ color \in ColorArgs
    /\ picked \in IF \E i \in 1..Len(colors) : colors[i] = color
                  THEN {color}
                  ELSE {colors[i] : i \in 1..Len(colors)}
    /\ color_code = color_code_of(picked)
    /\ \E arg \in TimeFormatArgs : time_format = time_format_of(arg)
    /\ clock = 0
    /\ ncalls = 0
    /\ flast = NoCall

FancyIdle ==
    /\ color = "red"
    /\ picked = "red"
    /\ color_code = color_code_of("red")
    /\ time_format = time_format_of("None")
    /\ clock = 0
    /\ ncalls = 0
    /\ flast = NoCall

\* the number of times __call__ gets to call prefix, and so now()
now_calls(data) ==
    IF data.haspid
    THEN Cardinality({i \in 1..Len(split(data.data)) :
                          split(data.data)[i] # <<>>})
    ELSE 0

FancyCall ==
    /\ ncalls < MaxCalls
    /\ \E data \in FancyData :
       \E ticks \in Ticks(now_calls(data)) :
           LET r == fancy_call(FancyBegin, data, ticks)
           IN  /\ clock' = r.clock
               /\ flast' = [called |-> TRUE, data |-> data, out |-> r.out,
                            lines |-> r.lines, exc |-> r.exc]
    /\ ncalls' = ncalls + 1
    /\ UNCHANGED <<color, picked, time_format, color_code>>
    /\ UNCHANGED <<filevars, routervars, queuevars, outputvars>>

(* ---------------------------- OutputStream ---------------------------- *)
\* topic in self.topics
topic_in(t, ts) == \E i \in 1..Len(ts) : ts[i] = t

\* OutputStream.handle_recv(data): what it writes to sys.stdout
output_handle_recv(data) ==
    IF topic_in(data[1], topics) THEN json_loads(data[2]) ELSE <<>>

NoOutput == [called |-> FALSE, data |-> <<>>, out |-> <<>>]

\* OutputStream.__init__
OutputInit ==
    /\ topics \in TopicsArgs
    /\ olast = NoOutput

OutputIdle ==
    /\ topics = <<>>
    /\ olast = NoOutput

OutputRecv ==
    /\ \E data \in Events :
           olast' = [called |-> TRUE, data |-> data,
                     out |-> output_handle_recv(data)]
    /\ UNCHANGED topics
    /\ UNCHANGED <<filevars, routervars, queuevars, fancyvars>>

FileIdle ==
    /\ max_bytes = 0
    /\ backup_count = 0
    /\ topic = NoTopic
    /\ preexisting = <<>>
    /\ fs = <<>>
    /\ file = "None"
    /\ raised = "none"
    /\ written = <<>>
    /\ rollovers = <<>>
    /\ nrecv = 0
    /\ inited = FALSE
    /\ stopped = FALSE
    /\ last = [op |-> "init", data |-> <<>>, fsBefore |-> <<>>,
               fileBefore |-> "None", ops |-> <<>>, rolled |-> 0, out |-> <<>>]

RouterIdle ==
    /\ failing = {}
    /\ rphase = "setup"
    /\ regs = <<>>
    /\ delivered = [s \in Sinks |-> <<>>]
    /\ failures = <<>>
    /\ lastDispatch = NoDispatch
    /\ ndispatch = 0

QueueIdle ==
    /\ queue = QueueStream_init.queue
    /\ maxsize = QueueStream_init.maxsize
    /\ pushed = <<>>
    /\ got = <<>>
    /\ blocked = {}
    /\ qclosed = FALSE

Init == FileInit /\ RouterIdle /\ QueueIdle /\ FancyIdle /\ OutputIdle

Next == HandleInit \/ HandleRecv \/ HandleStop

Spec == Init /\ [][Next]_vars

\* the router, with any set of sinks constructed to fail
RouterInit ==
    /\ failing \in SUBSET Sinks
    /\ rphase = "setup"
    /\ regs = <<>>
    /\ delivered = [s \in Sinks |-> <<>>]
    /\ failures = <<>>
    /\ lastDispatch = NoDispatch
    /\ ndispatch = 0

InitRouter == FileIdle /\ RouterInit /\ QueueIdle /\ FancyIdle /\ OutputIdle

NextRouter == Register \/ Unregister \/ Dispatch

SpecRouter == InitRouter /\ [][NextRouter]_vars

InitQueue == FileIdle /\ RouterIdle /\ QueueIdle /\ FancyIdle /\ OutputIdle

NextQueue == QueueCall \/ QueueGet \/ QueueClose

SpecQueue == InitQueue /\ [][NextQueue]_vars

InitFancy == FileIdle /\ RouterIdle /\ QueueIdle /\ FancyInit /\ OutputIdle

NextFancy == FancyCall

SpecFancy == InitFancy /\ [][NextFancy]_vars

\* the two topic-filtering plugins on one stream of events: a FileStream on
\* a new base path that rolls over at 10 bytes, and an OutputStream
InitFilter ==
    /\ FileInit /\ max_bytes = 10 /\ backup_count <= 1 /\ preexisting = <<>>
    /\ RouterIdle /\ QueueIdle /\ FancyIdle /\ OutputInit

NextFilter == HandleInit \/ HandleRecv \/ HandleStop \/ OutputRecv

SpecFilter == InitFilter /\ [][NextFilter]_vars

(* ------------------------ FileStream claims --------------------------- *)
Min(a, b) == IF a < b THEN a ELSE b

IsPrefix(p, s) == Len(p) <= Len(s) /\ SubSeq(s, 1, Len(p)) = p

\* the last call was a handle_recv whose topic matched
RecvMatched == last.op = "handle_recv" /\ last.data[1] = topic

LastRecord == format(last.data[1], last.data[2])

SizeBefore == getsize(last.fsBefore)

BaseBefore == IF exists(last.fsBefore, 0) THEN last.fsBefore[0] ELSE <<>>

RenamesOrRemoves(ops) ==
    {i \in 1..Len(ops) : ops[i].op \in {"rename", "remove"}}

\* everything the base path has ever held, in the order it was written
Stream == preexisting \o written

RECURSIVE ChainFrom(_)
\* the backups from "<base>.i" down to "<base>.1", then the base file
ChainFrom(i) ==
    IF i = 0 THEN (IF exists(fs, 0) THEN fs[0] ELSE <<>>)
    ELSE (IF exists(fs, i) THEN fs[i] ELSE <<>>) \o ChainFrom(i - 1)

Chain == ChainFrom(MaxBackupCount + 2)

RECURSIVE LenSum(_, _)
\* the total length of the first n contents rotated out
LenSum(s, n) == IF n <= 0 THEN 0 ELSE Len(s[n]) + LenSum(s, n - 1)

\* C1: with max_bytes = M > 0, a matching handle_recv of a record of length L
\* on a base file of size S rolls over iff S + L >= M, rolls over once, and
\* does so before it writes: the record is the whole content of the fresh
\* base file, which is written last, and the file rotated out holds the old
\* content and not the record.
C1_RolloverBeforeWrite ==
    (RecvMatched /\ max_bytes > 0 /\ last.fileBefore # "closed") =>
        /\ (last.rolled >= 1) <=> (SizeBefore + Len(LastRecord) >= max_bytes)
        /\ last.rolled <= 1
        /\ (last.rolled = 1) =>
              /\ last.ops[Len(last.ops)].op = "write"
              /\ fs[0] = LastRecord
              /\ exists(fs, 1) => fs[1] = BaseBefore

\* C2: with max_bytes <= 0 nothing is ever rolled over: no rename, no remove,
\* no backup file, and the base file only grows.
C2_NoRolloverWhenUnbounded ==
    (max_bytes <= 0) =>
        /\ rollovers = <<>>
        /\ last.rolled = 0
        /\ RenamesOrRemoves(last.ops) = {}
        /\ DOMAIN fs \subseteq {0}
        /\ IsPrefix(BaseBefore, IF exists(fs, 0) THEN fs[0] ELSE <<>>)
        /\ exists(fs, 0) => fs[0] = Stream

C2_Witness ==
    /\ max_bytes <= 0 /\ backup_count > 0
    /\ RecvMatched /\ preexisting # <<>>
    /\ Len(written) >= 54
    /\ fs[0] = Stream

\* C3 (as claimed): with backup_count >= 1 the backups from the highest suffix
\* down to "<base>.1", then the base file, hold everything ever appended.
C3_NoDataLoss ==
    (backup_count >= 1) => Chain = Stream

\* C3 (amended): with backup_count = N >= 1 the backups from the highest suffix
\* down to "<base>.1", then the base file, hold everything ever appended but
\* the contents rotated out more than N rollovers ago; so they hold
\* everything as long as at most N rollovers have occurred.
C3_NoDataLossWithinRetention ==
    (backup_count >= 1) =>
        LET dropped == LenSum(rollovers, Len(rollovers) - backup_count)
        IN  /\ Chain = SubSeq(Stream, dropped + 1, Len(Stream))
            /\ (Len(rollovers) <= backup_count) => Chain = Stream

C3_Witness ==
    /\ backup_count = 1
    /\ Len(rollovers) = 3
    /\ Len(Chain) < Len(Stream)
    /\ Len(Chain) = 36

\* C4: with backup_count = N only "<base>" and "<base>.1" .. "<base>.N" ever
\* exist: at most N + 1 files, none with a suffix above N.
C4_BackupChainBound ==
    /\ DOMAIN fs \subseteq 0..backup_count
    /\ Cardinality(DOMAIN fs) <= backup_count + 1

C4_Witness ==
    /\ backup_count = 2
    /\ Len(rollovers) > backup_count
    /\ DOMAIN fs = 0..backup_count

\* the scenario of the rotation example: three 18-character records
C5_Scenario ==
    /\ max_bytes = 20 /\ backup_count = 2 /\ preexisting = <<>>
    /\ written = (TopicT \o <<":", " ">> \o Rep("a", 15))
                   \o (TopicT \o <<":", " ">> \o Rep("b", 15))
                   \o (TopicT \o <<":", " ">> \o Rep("c", 15))

\* C5: with backup_count = N >= 1, after k rollovers "<base>.i" holds the
\* i-th most recently rotated-out content for 1 <= i <= min(k, N), without
\* gaps; and max_bytes = 20, backup_count = 2 with the records 't: ' + 'a'*15,
\* 't: ' + 'b'*15, 't: ' + 'c'*15 leaves the third in "<base>", the second in
\* "<base>.1" and the first in "<base>.2".
C5_BackupChainOrdering ==
    /\ (backup_count >= 1) =>
          LET k == Len(rollovers)
              m == Min(k, backup_count)
          IN  /\ DOMAIN fs \ {0} = 1..m
              /\ \A i \in 1..m : fs[i] = rollovers[k - i + 1]
    /\ C5_Scenario =>
          fs = (0 :> (TopicT \o <<":", " ">> \o Rep("c", 15))
                @@ 1 :> (TopicT \o <<":", " ">> \o Rep("b", 15))
                @@ 2 :> (TopicT \o <<":", " ">> \o Rep("a", 15)))

C5_Witness ==
    /\ C5_Scenario
    /\ Len(rollovers) = 2
    /\ DOMAIN fs = {0, 1, 2}

\* C6: with backup_count = 0 and max_bytes > 0 a rollover discards the old
\* content: after the handle_recv that rolled over, the base file holds the
\* record just written and nothing else.
C6_RolloverWithoutBackupsDiscards ==
    (RecvMatched /\ backup_count = 0 /\ max_bytes > 0 /\ last.rolled >= 1) =>
        fs[0] = LastRecord

\* C7: with max_bytes = M > 0 and any backup_count, after a handle_recv has
\* written its record the base file is smaller than M or is that record
\* alone, so it never exceeds M by more than one record.
C7_SoftSizeCap ==
    (RecvMatched /\ max_bytes > 0 /\ raised = "none") =>
        /\ Len(fs[0]) < max_bytes \/ fs[0] = LastRecord
        /\ Len(fs[0]) <= max_bytes + Len(LastRecord)

\* C8: handle_stop on a sink that was never opened (self._file is None) ends
\* without an exception and leaves the files as they were.
C8_StopNeverOpened ==
    (last.op = "handle_stop" /\ last.fileBefore = "None") =>
        /\ raised = "none"
        /\ fs = last.fsBefore

(* -------------------------- router claims ----------------------------- *)
\* C9: a dispatch gives the event to every registered sink whose filter
\* matches, in registration order, also to those registered after a sink that
\* raised; a sink whose filter does not match is given nothing.
C9_RouterIsolation ==
    \A i \in 1..Len(lastDispatch.regs) :
        LET reg == lastDispatch.regs[i]
        IN  delivered[reg.sink] =
                IF matches(reg.filter, lastDispatch.event.topic)
                THEN Append(lastDispatch.before[reg.sink], lastDispatch.event)
                ELSE lastDispatch.before[reg.sink]

C9_Witness ==
    /\ Len(lastDispatch.regs) = 3
    /\ \A i \in 1..3 : matches(lastDispatch.regs[i].filter,
                               lastDispatch.event.topic)
    /\ lastDispatch.regs[2].sink \in failing
    /\ lastDispatch.regs[1].sink \notin failing
    /\ lastDispatch.regs[3].sink \notin failing
    /\ Len(failures) > 0
    /\ failures[Len(failures)] = [sink |-> lastDispatch.regs[2].sink,
                                  event |-> lastDispatch.event]
    /\ \A i \in {1, 3} :
           LET d == delivered[lastDispatch.regs[i].sink]
           IN  Len(d) > 0 /\ d[Len(d)] = lastDispatch.event

(* ------------------------ QueueStream claims -------------------------- *)
\* C10: under any interleaving of pushes and gets the consumer obtains the
\* events in the order they were pushed, each at most once and none dropped
\* (what was got, then what is queued, is what was pushed), and no push ever
\* waits for room.
C10_QueueFifo ==
    /\ got \o queue = pushed
    /\ \A i, j \in 1..Len(got) : (got[i] = got[j]) => (i = j)
    /\ blocked = {}

C10_Witness ==
    /\ Len(got) >= 2
    /\ Len(queue) >= 2
    /\ got[1][1] # got[2][1]
    /\ got[1][3] < got[2][3]

\* C11: once close() has been called no push enqueues any more: the queue
\* only shrinks, handing the events queued before close() to the consumer.
C11_ClosedQueueAcceptsNothing ==
    [][qclosed => (pushed' = pushed /\ Len(queue') <= Len(queue))]_vars

(* --------------------- FancyStdoutStream claims ----------------------- *)
\* the number of line breaks in a text
Newlines(text) == Cardinality({i \in 1..Len(text) : text[i] = "\n"})

\* the number of non-empty segments between the line breaks of a payload
NonEmptySegments(str) ==
    Cardinality({i \in 1..Len(str) :
                     str[i] # "\n" /\ (i = 1 \/ str[i - 1] = "\n")})

EndsWithNewline(str) == Len(str) > 0 /\ str[Len(str)] = "\n"

\* C12: an explicit color of the ordered list gives color_code = its index
\* + 1, any other argument a color_code in 1..7, and no call changes it:
\* color_code stays the code of the color settled on at construction and
\* every line rendered carries it.
C12_ColorCodeStable ==
    /\ color_code \in 1..7
    /\ colors[color_code] = picked
    /\ (color \in {colors[i] : i \in 1..7}) => colors[color_code] = color
    /\ \A i \in 1..Len(flast.lines) : flast.lines[i].code = color_code
    /\ \A i \in 1..Len(flast.out) :
           (flast.out[i] = "ESC[0;3") => flast.out[i + 1] = ToString(color_code)

C12_Witness ==
    /\ color = "purple"
    /\ color_code = 5
    /\ ncalls = 2
    /\ Len(flast.lines) = 3

\* C13: a payload P that does not end in a line break and P + '\n' are
\* rendered to the same number of lines, one for each non-empty segment of P,
\* each ended by one line break, with no empty line; 'foo\nbar\nbaz' gives 3
\* lines with or without the trailing line break.
C13_TrailingNewlineInsignificant ==
    (flast.called /\ flast.exc = "none" /\ ~EndsWithNewline(flast.data.data)) =>
        LET P == flast.data.data
            Q == fancy_call(FancyBegin,
                            [flast.data EXCEPT !.data = P \o <<"\n">>],
                            [i \in 1..3 |-> 0])
        IN  /\ Len(flast.lines) = NonEmptySegments(P)
            /\ Newlines(flast.out) = NonEmptySegments(P)
            /\ Len(Q.lines) = Len(flast.lines)
            /\ Newlines(Q.out) = Newlines(flast.out)
            /\ \A i \in 1..Len(flast.lines) :
                   /\ flast.lines[i].text = Q.lines[i].text
                   /\ flast.lines[i].text # <<>>
            /\ \A i \in 1..Len(flast.out) :
                   (flast.out[i] = "\n") =>
                       /\ flast.out[i - 1] = "ESC[0m"
                       /\ flast.out[i - 2] # "] | "
            /\ (P = FooBarBaz) =>
                   /\ Len(flast.lines) = 3
                   /\ Len(split(flast.out)) = 4
                   /\ Len(split(Q.out)) = 4

C13_Witness ==
    /\ flast.called /\ flast.exc = "none"
    /\ flast.data.data = FooBarBaz
    /\ Len(flast.lines) = 3
    /\ Newlines(flast.out) = 3

\* C14: all the lines rendered from one event carry the same timestamp,
\* also when the clock advances between two of them.
C14_OneTimestampPerEvent ==
    \A i, j \in 1..Len(flast.lines) :
        flast.lines[i].time = flast.lines[j].time

\* C15: an event with a non-empty payload and no pid does not fail: the call
\* returns normally and has rendered every non-empty line of it.
C15_MissingPidTolerated ==
    (flast.called /\ ~flast.data.haspid /\ flast.data.data # <<>>) =>
        /\ flast.exc = "none"
        /\ Len(flast.lines) = NonEmptySegments(flast.data.data)

(* --------------------- FileStream claims, continued ------------------- *)
Renames(ops) == {i \in 1..Len(ops) : ops[i].op = "rename"}

\* C16: in a rollover the handle is closed, and self._file set to None,
\* before the first remove or rename; every remove and rename runs without
\* an open handle; the renames go from the highest backup down to the base
\* file, which becomes "<base>.1" last; a destination that exists is removed
\* right before the rename onto it; and the file is opened again only after
\* the last rename.
C16_RolloverStepOrdering ==
    (last.rolled >= 1) =>
        LET ops == last.ops
            closed == {i \in 1..Len(ops) : ops[i].op = "close"}
        IN  /\ closed # {}
            /\ \A i \in RenamesOrRemoves(ops) :
                   /\ ops[i].handle = "None"
                   /\ \E j \in closed : j < i
            /\ \A i \in Renames(ops) :
                   /\ ops[i].dst = ops[i].src + 1
                   /\ ops[i].dst \notin ops[i].present
                   /\ \A j \in Renames(ops) : (i < j) => ops[i].src > ops[j].src
                   /\ \E j \in (i + 1)..Len(ops) : ops[j].op = "open"
            /\ (backup_count > 0) => \E i \in Renames(ops) : ops[i].src = 0
            /\ \A i \in 1..Len(ops) :
                   (ops[i].op = "remove") =>
                       /\ i < Len(ops)
                       /\ ops[i + 1].op = "rename"
                       /\ ops[i + 1].dst = ops[i].src
            /\ \A i \in 1..Len(ops), j \in closed :
                   (ops[i].op = "open" /\ j < i) =>
                       \A k \in RenamesOrRemoves(ops) : k < i

C16_Witness ==
    /\ last.rolled = 1
    /\ backup_count = 2
    /\ Cardinality(Renames(last.ops)) = 2
    /\ Cardinality(RenamesOrRemoves(last.ops)) = 3
    /\ last.ops[1].op = "close"
    /\ last.ops[2].op = "remove"

\* C17: a matching event that finds no open handle first opens the file in
\* append mode, so the rollover is decided on the size the base file has on
\* disk: with a base file of size S a record of length L rolls over iff
\* max_bytes > 0 and S + L >= max_bytes, and what the base file held is kept,
\* in the base file or in the backup it was rotated to.
C17_LazyOpenAndResume ==
    (RecvMatched /\ last.fileBefore = "None") =>
        /\ last.ops[1].op = "open"
        /\ last.ops[1].present = DOMAIN last.fsBefore
        /\ (last.rolled >= 1) <=>
               (max_bytes > 0 /\ SizeBefore + Len(LastRecord) >= max_bytes)
        /\ (last.rolled = 0) => fs[0] = BaseBefore \o LastRecord
        /\ (last.rolled >= 1 /\ backup_count >= 1) => fs[1] = BaseBefore

C17_Witness ==
    /\ RecvMatched /\ last.fileBefore = "None"
    /\ nrecv = 1 /\ ~inited
    /\ preexisting = OldContent
    /\ max_bytes = 20 /\ backup_count >= 1
    /\ last.rolled = 1
    /\ fs[1] = OldContent

\* C19: after handle_stop has closed the file of an opened FileStream, a
\* handle_recv, matching or not, neither opens the file again, nor writes,
\* nor rolls over: the files and the closed handle are left as they were.
C19_NoResurrection ==
    (last.op = "handle_recv" /\ last.fileBefore = "closed") =>
        /\ fs = last.fsBefore
        /\ file = "closed"
        /\ last.ops = <<>>
        /\ last.out = <<>>
        /\ last.rolled = 0

C19_Witness ==
    /\ RecvMatched /\ last.fileBefore = "closed"
    /\ stopped
    /\ max_bytes > 0 /\ SizeBefore + Len(LastRecord) >= max_bytes
    /\ raised = "ValueError"
    /\ fs = last.fsBefore

\* C20: a FileStream constructed without a topic has the filter [], which no
\* topic equals: whatever the events, it writes nothing, rolls nothing over
\* and does not open the file on an event.
C20_DefaultTopicMatchesNothing ==
    (topic = NoTopic) =>
        /\ written = <<>>
        /\ rollovers = <<>>
        /\ ~inited => file = "None"
        /\ (last.op = "handle_recv") =>
               /\ last.ops = <<>>
               /\ fs = last.fsBefore
               /\ file = last.fileBefore
               /\ raised = "none"

C20_Witness ==
    /\ topic = NoTopic
    /\ nrecv >= 3 /\ ~inited
    /\ last.op = "handle_recv" /\ last.data[1] = TopicT
    /\ preexisting = OldContent /\ max_bytes = 10
    /\ fs = (0 :> OldContent)
    /\ file = "None"

\* C18: a handle_recv whose topic is not the configured one (for
\* OutputStream: is not among the configured ones) has no effect: the files,
\* the handle and the backups are as before, nothing is rolled over, even
\* with a base file at or above max_bytes, and nothing is written; a matching
\* event appends one record '<topic>: <payload>' (OutputStream: writes the
\* payload).
C18_TopicMissHasNoEffect ==
    /\ (last.op = "handle_recv" /\ last.data[1] # topic) =>
           /\ fs = last.fsBefore
           /\ file = last.fileBefore
           /\ last.ops = <<>>
           /\ last.rolled = 0
           /\ last.out = <<>>
           /\ raised = "none"
    /\ (RecvMatched /\ raised = "none") =>
           /\ \E p \in Payloads :
                  /\ last.data[2] = json_dumps(p)
                  /\ last.out = topic \o <<":", " ">> \o p
           /\ Cardinality({i \in 1..Len(last.ops) :
                               last.ops[i].op = "write"}) = 1
           /\ SubSeq(fs[0], Len(fs[0]) - Len(last.out) + 1, Len(fs[0]))
                  = last.out
    /\ olast.called =>
           IF olast.data[1] \in {topics[i] : i \in 1..Len(topics)}
           THEN json_dumps(olast.out) = olast.data[2]
           ELSE olast.out = <<>>

C18_Witness ==
    /\ topic = TopicT /\ backup_count = 1
    /\ last.op = "handle_recv" /\ last.data[1] = TopicU
    /\ file = "open"
    /\ getsize(fs) >= max_bytes
    /\ rollovers # <<>>
    /\ topics = <<TopicT>>
    /\ olast.called /\ olast.data[1] = TopicU /\ olast.out = <<>>

=============================================================================
